---- MODULE Spec2Model ----
(***************************************************************************)
(* Model of src/src/utils.py: column helpers over a Spark DataFrame        *)
(* (add_new_field, update_field_type), the Great Expectations wrappers     *)
(* (initialize_df and the expect_ functions) and the report builder        *)
(* (show_expectation_results).                                             *)
(*                                                                         *)
(* The functions are thin calls into pyspark and great_expectations; each  *)
(* library call is modelled by what it does:                               *)
(*  - DataFrame.withColumn replaces the column(s) whose name matches       *)
(*    (case-insensitively, Spark's default resolver) or appends one;       *)
(*  - Column.cast converts a value or yields null (non-ANSI cast);         *)
(*  - SparkDFDataset evaluates an expectation, returns its result and      *)
(*    records the expectation's configuration in its expectation suite;    *)
(*  - SparkSession.createDataFrame refuses an empty list of Rows           *)
(*    (the schema cannot be inferred).                                     *)
(***************************************************************************)
EXTENDS Integers, Sequences, FiniteSets, TLC

VARIABLES df, ctx, expectation_results, call, ret

vars == <<df, ctx, expectation_results, call, ret>>

(***************************************************************************)
(* Bounds of the model.                                                    *)
(***************************************************************************)
MaxRows == 2
MaxCols == 2
MaxCells == 4
MaxSuite == 1
MaxEntries == 3

(***************************************************************************)
(* Values.  A cell is null, an integer, a string or a boolean.             *)
(***************************************************************************)
NullV == [k |-> "null", i |-> 0, s |-> ""]
IntV(n) == [k |-> "int", i |-> n, s |-> ""]
StrV(t) == [k |-> "str", i |-> 0, s |-> t]
BoolV(b) == [k |-> "bool", i |-> IF b THEN 1 ELSE 0, s |-> ""]

\* Decimal rendering of the integers the model uses.
DigitStr == <<"0", "1", "2", "3", "4", "5", "6", "7", "8", "9">>

IntToStr(n) == DigitStr[n + 1]

StrToInt(t) ==
    IF \E n \in 1..Len(DigitStr) : DigitStr[n] = t
    THEN IntV((CHOOSE n \in 1..Len(DigitStr) : DigitStr[n] = t) - 1)
    ELSE NullV

StrToBool(t) ==
    IF t \in {"true", "t", "yes", "y", "1"} THEN BoolV(TRUE)
    ELSE IF t \in {"false", "f", "no", "n", "0"} THEN BoolV(FALSE)
    ELSE NullV

ValidTypes == {"int", "string", "boolean"}

\* Column.cast(field_type): Spark's non-ANSI cast; what cannot be converted is null.
Cast(v, T) ==
    IF v.k = "null" THEN NullV
    ELSE IF T = "int" THEN
        (IF v.k = "int" THEN v
         ELSE IF v.k = "bool" THEN IntV(v.i)
         ELSE StrToInt(v.s))
    ELSE IF T = "string" THEN
        (IF v.k = "str" THEN v
         ELSE IF v.k = "int" THEN StrV(IntToStr(v.i))
         ELSE StrV(IF v.i = 1 THEN "true" ELSE "false"))
    ELSE
        (IF v.k = "bool" THEN v
         ELSE IF v.k = "int" THEN BoolV(v.i # 0)
         ELSE StrToBool(v.s))

(***************************************************************************)
(* Datasets: an ordered list of named, typed columns and a list of rows.   *)
(***************************************************************************)
Names == {"a", "A", "b"}

\* Spark resolves column names case-insensitively (spark.sql.caseSensitive = false).
Lower(n) == IF n = "A" THEN "a" ELSE n

Resolves(n, m) == Lower(n) = Lower(m)

ColumnNames(d) == [j \in 1..Len(d.cols) |-> d.cols[j].name]

column_count(d) == Len(d.cols)

row_count(d) == Len(d.rows)

Matches(d, n) == {j \in 1..Len(d.cols) : Resolves(d.cols[j].name, n)}

RECURSIVE SeqsUpTo(_, _)
SeqsUpTo(S, n) ==
    IF n = 0 THEN {<<>>}
    ELSE LET shorter == SeqsUpTo(S, n - 1)
         IN  shorter \cup {Append(q, x) : q \in {p \in shorter : Len(p) = n - 1}, x \in S}

EmptyDS == [cols |-> <<>>, rows |-> <<>>]

\* The column lists of at most MaxCols columns over the names N and the types T,
\* no two names resolving to the same column.
ColumnLists(N, T) ==
    {c \in SeqsUpTo([name : N, type : T], MaxCols) :
        \A j1, j2 \in 1..Len(c) : Resolves(c[j1].name, c[j2].name) => j1 = j2}

\* The cells a column of declared type T may hold, among V.
CellsOf(T, V) ==
    {v \in V : v.k = "null" \/ (T = "int" /\ v.k = "int")
                            \/ (T = "string" /\ v.k = "str")
                            \/ (T = "boolean" /\ v.k = "bool")}

RowsOf(c, V) == {r \in [1..Len(c) -> V] : \A j \in 1..Len(c) : r[j] \in CellsOf(c[j].type, V)}

\* Every dataset of at most MaxCols columns, MaxRows rows and MaxCells cells
\* over N, T and V.
Datasets(N, T, V) ==
    UNION {{[cols |-> c, rows |-> r] :
               r \in {q \in SeqsUpTo(RowsOf(c, V), MaxRows) : Len(q) * Len(c) <= MaxCells}} :
              c \in ColumnLists(N, T)}

(***************************************************************************)
(* What a call hands back: a dataset, expectation results, or an error.    *)
(***************************************************************************)
NoRet == [kind |-> "none", dataset |-> EmptyDS, results |-> <<>>, error |-> ""]
DatasetRet(d) == [kind |-> "dataset", dataset |-> d, results |-> <<>>, error |-> ""]
ResultRet(rs) == [kind |-> "result", dataset |-> EmptyDS, results |-> rs, error |-> ""]
ErrorRet(e) == [kind |-> "error", dataset |-> EmptyDS, results |-> <<>>, error |-> e]

NoCall ==
    [op |-> "none", column |-> "", value |-> NullV, type |-> "",
     min_value |-> 0, max_value |-> 0, column_list |-> <<>>]

(***************************************************************************)
(* Schema helpers (utils.py lines 9-40).                                   *)
(***************************************************************************)
\* A withColumn that appends even when the name is already a column.
WithColumnAlwaysAppends(d, colName, T, vals) ==
    [cols |-> Append(d.cols, [name |-> colName, type |-> T]),
     rows |-> [r \in 1..Len(d.rows) |-> Append(d.rows[r], vals[r])]]

\* A withColumn that overwrites the last column when the name is new.
WithColumnNeverAppends(d, colName, T, vals) ==
    LET m == IF Matches(d, colName) = {} THEN {Len(d.cols)} ELSE Matches(d, colName)
    IN  [cols |-> [j \in 1..Len(d.cols) |->
                      IF j \in m THEN [name |-> colName, type |-> T] ELSE d.cols[j]],
         rows |-> [r \in 1..Len(d.rows) |->
                      [j \in 1..Len(d.cols) |->
                          IF j \in m THEN vals[r] ELSE d.rows[r][j]]]]

\* DataFrame.withColumn(colName, col), vals[r] being col's value in row r: the
\* columns whose name resolves to colName are replaced in place by the new
\* column, named colName; with no such column the new column is appended.
WithColumn(d, colName, T, vals) ==
    LET m == Matches(d, colName)
    IN  IF m = {}
        THEN [cols |-> Append(d.cols, [name |-> colName, type |-> T]),
              rows |-> [r \in 1..Len(d.rows) |-> Append(d.rows[r], vals[r])]]
        ELSE [cols |-> [j \in 1..Len(d.cols) |->
                           IF j \in m THEN [name |-> colName, type |-> T] ELSE d.cols[j]],
              rows |-> [r \in 1..Len(d.rows) |->
                           [j \in 1..Len(d.cols) |->
                               IF j \in m THEN vals[r] ELSE d.rows[r][j]]]]

\* add_new_field: df.withColumn(new_field, F.lit(new_field_value).cast(field_type)).
\* A type string Spark cannot parse raises ParseException.
add_new_field(d, new_field, new_field_value, field_type) ==
    IF field_type \notin ValidTypes THEN ErrorRet("ParseException")
    ELSE DatasetRet(WithColumn(d, new_field, field_type,
                               [r \in 1..Len(d.rows) |-> Cast(new_field_value, field_type)]))

RECURSIVE KeepRows(_, _, _)
KeepRows(rows, keep, r) ==
    IF r > Len(rows) THEN <<>>
    ELSE IF r \in keep THEN <<rows[r]>> \o KeepRows(rows, keep, r + 1)
    ELSE KeepRows(rows, keep, r + 1)

\* An update_field_type that drops the rows whose value did not convert.
update_field_type_dropping(d, field, new_field_type) ==
    IF new_field_type \notin ValidTypes THEN ErrorRet("ParseException")
    ELSE IF Cardinality(Matches(d, field)) # 1 THEN ErrorRet("AnalysisException")
    ELSE LET j == CHOOSE x \in Matches(d, field) : TRUE
             vals == [r \in 1..Len(d.rows) |-> Cast(d.rows[r][j], new_field_type)]
             out == WithColumn(d, field, new_field_type, vals)
         IN  DatasetRet([out EXCEPT !.rows =
                 KeepRows(out.rows, {r \in 1..Len(d.rows) : vals[r].k # "null"}, 1)])

\* update_field_type: df.withColumn(field, F.col(field).cast(new_field_type)).
\* F.col(field) must resolve to exactly one column (else AnalysisException).
update_field_type(d, field, new_field_type) ==
    IF new_field_type \notin ValidTypes THEN ErrorRet("ParseException")
    ELSE IF Cardinality(Matches(d, field)) # 1 THEN ErrorRet("AnalysisException")
    ELSE LET j == CHOOSE x \in Matches(d, field) : TRUE
         IN  DatasetRet(WithColumn(d, field, new_field_type,
                 [r \in 1..Len(d.rows) |-> Cast(d.rows[r][j], new_field_type)]))

\* Inputs of the schema helpers.
FieldArgs == Names \cup {"c"}
TypeArgs == ValidTypes \cup {"quack"}
ValueArgs == {NullV, IntV(0), IntV(2), StrV("1"), StrV("x"), BoolV(TRUE)}
MutateCells == {IntV(0), IntV(2), StrV("1"), StrV("x")}
MutateDatasets == Datasets(Names, {"int", "string"}, MutateCells)

AddNewField(new_field, new_field_value, field_type) ==
    /\ call' = [NoCall EXCEPT !.op = "add_new_field", !.column = new_field,
                              !.value = new_field_value, !.type = field_type]
    /\ ret' = add_new_field(df, new_field, new_field_value, field_type)
    /\ UNCHANGED <<df, ctx, expectation_results>>

UpdateFieldType(field, new_field_type) ==
    /\ call' = [NoCall EXCEPT !.op = "update_field_type", !.column = field,
                              !.type = new_field_type]
    /\ ret' = update_field_type(df, field, new_field_type)
    /\ UNCHANGED <<df, ctx, expectation_results>>

NoCtx == [wrapped |-> FALSE, dataset |-> EmptyDS, suite |-> <<>>]

InitMutate ==
    /\ df \in MutateDatasets
    /\ ctx = NoCtx
    /\ expectation_results = <<>>
    /\ call = NoCall
    /\ ret = NoRet

NextMutate ==
    \/ \E n \in FieldArgs, v \in ValueArgs, T \in TypeArgs : AddNewField(n, v, T)
    \/ \E n \in FieldArgs, T \in TypeArgs : UpdateFieldType(n, T)

SpecMutate == InitMutate /\ [][NextMutate]_vars

(***************************************************************************)
(* Expectations (utils.py lines 43-130).  initialize_df wraps the          *)
(* DataFrame in a SparkDFDataset; every expect_ function is one method     *)
(* call on it.  The SparkDFDataset evaluates the expectation on its        *)
(* DataFrame and, unless the evaluation raised, stores the expectation's   *)
(* configuration in its expectation suite, replacing a stored              *)
(* configuration of the same expectation type and column.                  *)
(***************************************************************************)
Config(t, column, min_value, max_value, column_list) ==
    [expectation_type |-> t, column |-> column, min_value |-> min_value,
     max_value |-> max_value, column_list |-> column_list]

Result(cfg, success) == [success |-> success, expectation_config |-> cfg]

ColumnValues(d, j) == [r \in 1..Len(d.rows) |-> d.rows[r][j]]

IsNotNull(v) == v.k # "null"

NonNull(vals) == SelectSeq(vals, IsNotNull)

\* Spark's min and max aggregates over the non-null values (none: no observed value).
HasObserved(vals) == NonNull(vals) # <<>>

ColumnMin(vals) ==
    LET nn == NonNull(vals)
    IN  CHOOSE m \in {nn[x].i : x \in 1..Len(nn)} : \A x \in 1..Len(nn) : m <= nn[x].i

ColumnMax(vals) ==
    LET nn == NonNull(vals)
    IN  CHOOSE m \in {nn[x].i : x \in 1..Len(nn)} : \A x \in 1..Len(nn) : m >= nn[x].i

\* A range test with strict bounds.
BetweenStrict(x, min_value, max_value) == min_value < x /\ x < max_value

\* min_value <= x <= max_value, both bounds inclusive.
Between(x, min_value, max_value) == min_value <= x /\ x <= max_value

ColumnExpectations ==
    {"expect_column_values_to_be_between", "expect_column_min_to_be_between",
     "expect_column_max_to_be_between", "expect_column_values_to_be_unique"}

\* The success flag of one expectation on dataset d (the evaluation did not raise).
Success(d, cfg) ==
    LET t == cfg.expectation_type
        vals == ColumnValues(d, CHOOSE x \in Matches(d, cfg.column) : TRUE)
        nn == NonNull(vals)
    IN  IF t = "expect_table_column_count_to_be_between"
            THEN Between(column_count(d), cfg.min_value, cfg.max_value)
        ELSE IF t = "expect_table_row_count_to_be_between"
            THEN Between(row_count(d), cfg.min_value, cfg.max_value)
        ELSE IF t = "expect_column_to_exist"
            THEN \E j \in 1..Len(d.cols) : d.cols[j].name = cfg.column
        ELSE IF t = "expect_table_columns_to_match_ordered_list"
            THEN ColumnNames(d) = cfg.column_list
        ELSE IF t = "expect_column_values_to_be_between"
            THEN \A x \in 1..Len(nn) : Between(nn[x].i, cfg.min_value, cfg.max_value)
        ELSE IF t = "expect_column_min_to_be_between"
            THEN HasObserved(vals) /\ Between(ColumnMin(vals), cfg.min_value, cfg.max_value)
        ELSE IF t = "expect_column_max_to_be_between"
            THEN HasObserved(vals) /\ Between(ColumnMax(vals), cfg.min_value, cfg.max_value)
        ELSE \A x, y \in 1..Len(nn) : nn[x] = nn[y] => x = y

\* The error an evaluation raises, "" when it raises none: a column expectation
\* needs its column to resolve to one column of the DataFrame, and
\* expect_column_values_to_be_between refuses min_value > max_value.
Raises(d, cfg) ==
    IF cfg.expectation_type \in ColumnExpectations
       /\ Cardinality(Matches(d, cfg.column)) # 1
        THEN "AnalysisException"
    ELSE IF cfg.expectation_type = "expect_column_values_to_be_between"
            /\ cfg.min_value > cfg.max_value
        THEN "ValueError"
    ELSE ""

SameDomain(c1, c2) ==
    c1.expectation_type = c2.expectation_type /\ c1.column = c2.column

\* ExpectationSuite.add_expectation: replace the configuration of the same
\* expectation type and column, or append.
AddExpectation(suite, cfg) ==
    IF \E x \in 1..Len(suite) : SameDomain(suite[x], cfg)
    THEN [x \in 1..Len(suite) |-> IF SameDomain(suite[x], cfg) THEN cfg ELSE suite[x]]
    ELSE Append(suite, cfg)

\* An evaluation that deduplicates the wrapped DataFrame as it goes.
RECURSIVE Dedup(_)
Dedup(rows) ==
    IF rows = <<>> THEN <<>>
    ELSE LET rest == Dedup(Tail(rows))
         IN  IF \E x \in 1..Len(rest) : rest[x] = Head(rows)
             THEN rest ELSE <<Head(rows)>> \o rest

ExpectDeduplicating(c, cfg) ==
    IF Raises(c.dataset, cfg) # ""
    THEN [ctx |-> c, out |-> ErrorRet(Raises(c.dataset, cfg))]
    ELSE [ctx |-> [c EXCEPT !.suite = AddExpectation(c.suite, cfg),
                            !.dataset.rows = Dedup(c.dataset.rows)],
          out |-> ResultRet(<<Result(cfg, Success(c.dataset, cfg))>>)]

\* One expect_... method call on the SparkDFDataset c: the context afterwards
\* and what the call hands back.
Expect(c, cfg) ==
    IF Raises(c.dataset, cfg) # ""
    THEN [ctx |-> c, out |-> ErrorRet(Raises(c.dataset, cfg))]
    ELSE [ctx |-> [c EXCEPT !.suite = AddExpectation(c.suite, cfg)],
          out |-> ResultRet(<<Result(cfg, Success(c.dataset, cfg))>>)]

\* initialize_df: SparkDFDataset(df), holding the DataFrame and an empty suite.
initialize_df(d) == [wrapped |-> TRUE, dataset |-> d, suite |-> <<>>]

expect_table_column_count(c, min_value, max_value) ==
    Expect(c, Config("expect_table_column_count_to_be_between", "",
                     min_value, max_value, <<>>))

expect_table_row_count(c, min_value, max_value) ==
    Expect(c, Config("expect_table_row_count_to_be_between", "",
                     min_value, max_value, <<>>))

expect_column_existence(c, column_name) ==
    Expect(c, Config("expect_column_to_exist", column_name, 0, 0, <<>>))

expect_ordered_column_list(c, column_list) ==
    Expect(c, Config("expect_table_columns_to_match_ordered_list", "", 0, 0, column_list))

expect_column_value_range(c, column_name, min_value, max_value) ==
    Expect(c, Config("expect_column_values_to_be_between", column_name,
                     min_value, max_value, <<>>))

\* expect_column_min_max_range: the min expectation is evaluated and its result
\* discarded (line 119); the max expectation's result is returned (line 120).
expect_column_min_max_range(c, column_name, min_value, max_value) ==
    LET first == Expect(c, Config("expect_column_min_to_be_between", column_name,
                                  min_value, max_value, <<>>))
    IN  IF first.out.kind = "error" THEN first
        ELSE Expect(first.ctx, Config("expect_column_max_to_be_between", column_name,
                                      min_value, max_value, <<>>))

expect_unique_column_values(c, column_name) ==
    Expect(c, Config("expect_column_values_to_be_unique", column_name, 0, 0, <<>>))

\* Inputs of the expectations.
ExpectCells == {IntV(0), IntV(1), IntV(2)}
ExpectDatasets == Datasets({"a", "b"}, {"int"}, ExpectCells)
ColumnArgs == {"a", "c"}
\* (min_value, max_value): a one-point range, a wider one, and an inverted one.
RangeArgs == {<<1, 1>>, <<1, 2>>, <<2, 1>>}
ColumnListArgs == {<<"a", "b">>, <<"b", "a">>}

\* The step every expectation call takes: the context and the returned value
\* change together.  A call that would grow the suite needs the suite to hold
\* fewer than MaxSuite configurations.
Returns(op, column, min_value, max_value, column_list, r) ==
    /\ ctx.wrapped
    /\ Len(r.ctx.suite) = Len(ctx.suite) \/ Len(ctx.suite) < MaxSuite
    /\ call' = [NoCall EXCEPT !.op = op, !.column = column, !.min_value = min_value,
                              !.max_value = max_value, !.column_list = column_list]
    /\ ctx' = r.ctx
    /\ ret' = r.out
    /\ UNCHANGED <<df, expectation_results>>

InitializeDf ==
    /\ call' = [NoCall EXCEPT !.op = "initialize_df"]
    /\ ctx' = initialize_df(df)
    /\ ret' = NoRet
    /\ UNCHANGED <<df, expectation_results>>

ExpectTableColumnCount(min_value, max_value) ==
    Returns("expect_table_column_count", "", min_value, max_value, <<>>,
            expect_table_column_count(ctx, min_value, max_value))

ExpectTableRowCount(min_value, max_value) ==
    Returns("expect_table_row_count", "", min_value, max_value, <<>>,
            expect_table_row_count(ctx, min_value, max_value))

ExpectColumnExistence(column_name) ==
    Returns("expect_column_existence", column_name, 0, 0, <<>>,
            expect_column_existence(ctx, column_name))

ExpectOrderedColumnList(column_list) ==
    Returns("expect_ordered_column_list", "", 0, 0, column_list,
            expect_ordered_column_list(ctx, column_list))

ExpectColumnValueRange(column_name, min_value, max_value) ==
    Returns("expect_column_value_range", column_name, min_value, max_value, <<>>,
            expect_column_value_range(ctx, column_name, min_value, max_value))

ExpectColumnMinMaxRange(column_name, min_value, max_value) ==
    Returns("expect_column_min_max_range", column_name, min_value, max_value, <<>>,
            expect_column_min_max_range(ctx, column_name, min_value, max_value))

ExpectUniqueColumnValues(column_name) ==
    Returns("expect_unique_column_values", column_name, 0, 0, <<>>,
            expect_unique_column_values(ctx, column_name))

InitExpect ==
    /\ df \in ExpectDatasets
    /\ ctx = NoCtx
    /\ expectation_results = <<>>
    /\ call = NoCall
    /\ ret = NoRet

NextExpect ==
    \/ InitializeDf
    \/ \E r \in RangeArgs : ExpectTableColumnCount(r[1], r[2])
    \/ \E r \in RangeArgs : ExpectTableRowCount(r[1], r[2])
    \/ \E n \in ColumnArgs : ExpectColumnExistence(n)
    \/ \E l \in ColumnListArgs : ExpectOrderedColumnList(l)
    \/ \E n \in ColumnArgs, r \in RangeArgs : ExpectColumnValueRange(n, r[1], r[2])
    \/ \E n \in ColumnArgs, r \in RangeArgs : ExpectColumnMinMaxRange(n, r[1], r[2])
    \/ \E n \in ColumnArgs : ExpectUniqueColumnValues(n)

SpecExpect == InitExpect /\ [][NextExpect]_vars

(***************************************************************************)
(* Report (utils.py lines 133-154).  The outcome dictionary is a list of   *)
(* (key, value) items in insertion order, keys unique; a value is the      *)
(* Python value True, False or None.                                       *)
(***************************************************************************)
\* A mapping with the two statuses exchanged.
status_mapping_swapped(value) ==
    IF value = "True" THEN "Failed" ELSE IF value = "False" THEN "Passed" ELSE ""

\* status_mapping = {True: 'Passed', False: 'Failed'}; "" for a key it lacks.
status_mapping(value) ==
    IF value = "True" THEN "Passed" ELSE IF value = "False" THEN "Failed" ELSE ""

\* rows = [Row(Expectation=key, Status=status_mapping[value]) for key, value in items]
RECURSIVE ReportRows(_)
ReportRows(items) ==
    IF items = <<>> THEN <<>>
    ELSE <<<<StrV(Head(items).key), StrV(status_mapping(Head(items).value))>>>>
             \o ReportRows(Tail(items))

ReportColumns ==
    <<[name |-> "Expectation", type |-> "string"], [name |-> "Status", type |-> "string"]>>

\* A report builder that hands back a DataFrame without columns for no rows.
show_expectation_results_schemaless(items) ==
    IF \E x \in 1..Len(items) : status_mapping(items[x].value) = ""
        THEN ErrorRet("KeyError")
    ELSE IF items = <<>> THEN DatasetRet(EmptyDS)
    ELSE DatasetRet([cols |-> ReportColumns, rows |-> ReportRows(items)])

\* show_expectation_results: the list comprehension raises KeyError on a value
\* status_mapping lacks; spark.createDataFrame(rows) infers the schema from the
\* rows and raises ValueError when there is none.
show_expectation_results(items) ==
    IF \E x \in 1..Len(items) : status_mapping(items[x].value) = ""
        THEN ErrorRet("KeyError")
    ELSE IF items = <<>> THEN ErrorRet("ValueError")
    ELSE DatasetRet([cols |-> ReportColumns, rows |-> ReportRows(items)])

\* Inputs of the report.
ExpectationNames == {"A", "B", "C"}
PythonValues == {"True", "False", "None"}
OutcomeMaps ==
    {m \in SeqsUpTo([key : ExpectationNames, value : PythonValues], MaxEntries) :
        \A x, y \in 1..Len(m) : m[x].key = m[y].key => x = y}

ShowExpectationResults ==
    /\ call' = [NoCall EXCEPT !.op = "show_expectation_results"]
    /\ ret' = show_expectation_results(expectation_results)
    /\ UNCHANGED <<df, ctx, expectation_results>>

InitReport ==
    /\ df = EmptyDS
    /\ ctx = NoCtx
    /\ expectation_results \in OutcomeMaps
    /\ call = NoCall
    /\ ret = NoRet

NextReport == ShowExpectationResults

SpecReport == InitReport /\ [][NextReport]_vars

(***************************************************************************)
(* Properties.                                                             *)
(***************************************************************************)
CheckOps ==
    {"expect_table_column_count", "expect_table_row_count", "expect_column_existence",
     "expect_ordered_column_list", "expect_column_value_range",
     "expect_column_min_max_range", "expect_unique_column_values"}

\* The values of the column the call names, in the caller's dataset.
CalledColumn == ColumnValues(df, CHOOSE j \in Matches(df, call.column) : TRUE)

CalledInts == {CalledColumn[r].i : r \in 1..Len(CalledColumn)}

InRange(x) == call.min_value <= x /\ x <= call.max_value

MinInRange == \E x \in CalledInts : InRange(x) /\ \A y \in CalledInts : x <= y

MaxInRange == \E x \in CalledInts : InRange(x) /\ \A y \in CalledInts : x >= y

\* C1: expect_column_min_max_range hands the caller two results, the min check's
\* and the max check's, each with its own success flag.
C1_TwoResults ==
    (call.op = "expect_column_min_max_range" /\ ret.kind = "result") =>
        /\ Len(ret.results) = 2
        /\ ret.results[1].expectation_config.expectation_type
               = "expect_column_min_to_be_between"
        /\ ret.results[1].success = MinInRange
        /\ ret.results[2].expectation_config.expectation_type
               = "expect_column_max_to_be_between"
        /\ ret.results[2].success = MaxInRange

AllBoolean(items) == \A x \in 1..Len(items) : items[x].value \in {"True", "False"}

\* C2: for a non-empty outcome map of booleans the report has one row per entry,
\* in the map's order, row i being (name_i, "Passed") for true and
\* (name_i, "Failed") for false.
C2_ReportRows ==
    (call.op = "show_expectation_results" /\ expectation_results # <<>>
     /\ AllBoolean(expectation_results)) =>
        /\ ret.kind = "dataset"
        /\ ColumnNames(ret.dataset) = <<"Expectation", "Status">>
        /\ Len(ret.dataset.rows) = Len(expectation_results)
        /\ \A x \in 1..Len(expectation_results) :
               /\ ret.dataset.rows[x][1] = StrV(expectation_results[x].key)
               /\ ret.dataset.rows[x][2] =
                      StrV(IF expectation_results[x].value = "True"
                           THEN "Passed" ELSE "Failed")

C2_Witness ==
    /\ call.op = "show_expectation_results"
    /\ ret.kind = "dataset"
    /\ Len(expectation_results) = 3
    /\ expectation_results[1].key = "B"
    /\ expectation_results[1].value = "False"
    /\ expectation_results[2].key = "A"
    /\ expectation_results[2].value = "True"

ValidAdd == call.op = "add_new_field" /\ call.type \in ValidTypes

\* C3 as stated: add_new_field always yields column_count(D) + 1 columns and
\* row_count(D) rows, whatever the name.
C3_Original ==
    ValidAdd =>
        /\ ret.kind = "dataset"
        /\ column_count(ret.dataset) = column_count(df) + 1
        /\ row_count(ret.dataset) = row_count(df)

\* C3 amended: add_new_field keeps the row count, and yields column_count(D) + 1
\* columns when the name resolves to no column of D, column_count(D) columns
\* when it resolves to one (that column is overwritten).
C3_Amended ==
    ValidAdd =>
        /\ ret.kind = "dataset"
        /\ row_count(ret.dataset) = row_count(df)
        /\ column_count(ret.dataset) =
               column_count(df) + (IF Matches(df, call.column) = {} THEN 1 ELSE 0)

C3_Witness ==
    /\ ValidAdd
    /\ Matches(df, call.column) = {}
    /\ column_count(df) = 2
    /\ row_count(df) = 2
    /\ column_count(ret.dataset) = 3

\* C4: add_new_field with a name that is already a column does not fail; the
\* column holds the new value cast to the type in every row, every other column
\* is as before, and adding the same field again changes nothing.
C4_Overwrite ==
    (ValidAdd /\ Matches(df, call.column) # {}) =>
        /\ ret.kind = "dataset"
        /\ column_count(ret.dataset) = column_count(df)
        /\ row_count(ret.dataset) = row_count(df)
        /\ \A j \in 1..Len(df.cols) :
               IF j \in Matches(df, call.column)
               THEN /\ ret.dataset.cols[j] = [name |-> call.column, type |-> call.type]
                    /\ \A r \in 1..Len(df.rows) :
                           ret.dataset.rows[r][j] = Cast(call.value, call.type)
               ELSE /\ ret.dataset.cols[j] = df.cols[j]
                    /\ \A r \in 1..Len(df.rows) : ret.dataset.rows[r][j] = df.rows[r][j]
        /\ add_new_field(ret.dataset, call.column, call.value, call.type) = ret

C4_Witness ==
    /\ ValidAdd
    /\ ret.kind = "dataset"
    /\ row_count(df) = 2
    /\ \E j \in Matches(df, call.column) :
           /\ df.rows[1][j] # Cast(call.value, call.type)
           /\ df.cols[j].type # call.type

CountOps == {"expect_table_column_count", "expect_table_row_count"}

Counted == IF call.op = "expect_table_column_count" THEN column_count(df) ELSE row_count(df)

\* C5: with min <= max, expect_table_column_count succeeds iff
\* min <= column_count(D) <= max and expect_table_row_count succeeds iff
\* min <= row_count(D) <= max.
C5_CountBetween ==
    (call.op \in CountOps /\ call.min_value <= call.max_value) =>
        /\ ret.kind = "result"
        /\ Len(ret.results) = 1
        /\ ret.results[1].success <=>
               (call.min_value <= Counted /\ Counted <= call.max_value)

C5_Witness ==
    /\ call.op = "expect_table_column_count"
    /\ call.min_value = column_count(df)
    /\ call.max_value = column_count(df)
    /\ ret.kind = "result"
    /\ ret.results[1].success

\* C6: expect_table_column_count and expect_table_row_count called with
\* min > max fail with an error and hand back no expectation result.
C6_RangeError ==
    (call.op \in CountOps /\ call.min_value > call.max_value) => ret.kind = "error"

OnFreshContext(c) ==
    LET fresh == initialize_df(df)
    IN  IF c.op = "expect_table_column_count"
            THEN expect_table_column_count(fresh, c.min_value, c.max_value).out
        ELSE IF c.op = "expect_table_row_count"
            THEN expect_table_row_count(fresh, c.min_value, c.max_value).out
        ELSE IF c.op = "expect_column_existence"
            THEN expect_column_existence(fresh, c.column).out
        ELSE IF c.op = "expect_ordered_column_list"
            THEN expect_ordered_column_list(fresh, c.column_list).out
        ELSE IF c.op = "expect_column_value_range"
            THEN expect_column_value_range(fresh, c.column, c.min_value, c.max_value).out
        ELSE IF c.op = "expect_column_min_max_range"
            THEN expect_column_min_max_range(fresh, c.column, c.min_value, c.max_value).out
        ELSE expect_unique_column_values(fresh, c.column).out

C8_EmptyReport ==
    (call.op = "show_expectation_results" /\ expectation_results = <<>>) =>
        \/ /\ ret.kind = "dataset"
           /\ ret.dataset.rows = <<>>
           /\ ColumnNames(ret.dataset) = <<"Expectation", "Status">>
        \/ /\ ret.kind = "error"
           /\ ret.error = "ValueError"

C8_Witness ==
    /\ call.op = "show_expectation_results"
    /\ expectation_results = <<>>
    /\ ret.kind = "error"

HasColumn(d, n) == \E j \in 1..Len(d.cols) : d.cols[j].name = n

\* C9: update_field_type on an existing column hands back a dataset with the
\* same rows count and the same column names in the same order, in which only
\* that column's type (and its values, converted) differ; the caller's dataset
\* is not modified.
C9_CastColumn ==
    [][(call'.op = "update_field_type" /\ call'.type \in ValidTypes
        /\ HasColumn(df, call'.column)) =>
          /\ df' = df
          /\ ret'.kind = "dataset"
          /\ row_count(ret'.dataset) = row_count(df)
          /\ ColumnNames(ret'.dataset) = ColumnNames(df)
          /\ \A j \in 1..Len(df.cols) :
                 IF df.cols[j].name = call'.column
                 THEN /\ ret'.dataset.cols[j].type = call'.type
                      /\ \A r \in 1..Len(df.rows) :
                             ret'.dataset.rows[r][j] = Cast(df.rows[r][j], call'.type)
                 ELSE /\ ret'.dataset.cols[j] = df.cols[j]
                      /\ \A r \in 1..Len(df.rows) :
                             ret'.dataset.rows[r][j] = df.rows[r][j]]_vars

C9_Witness ==
    /\ call.op = "update_field_type"
    /\ call.type = "int"
    /\ HasColumn(df, call.column)
    /\ ret.kind = "dataset"
    /\ column_count(df) = 2
    /\ row_count(df) = 2
    /\ \E j \in Matches(df, call.column) :
           /\ df.cols[j].type = "string"
           /\ ret.dataset.rows[1][j] = IntV(1)
           /\ ret.dataset.rows[2][j] = NullV

\* A call the contract calls well formed: a column check names a column of the
\* dataset, a range has min <= max.
WellFormed ==
    /\ call.op \in CheckOps
    /\ call.op \in {"expect_column_value_range", "expect_column_min_max_range",
                    "expect_unique_column_values"} => HasColumn(df, call.column)
    /\ call.min_value <= call.max_value

\* Whether the caller's dataset meets the expectation the call states.
Satisfied ==
    IF call.op \in CountOps THEN InRange(Counted)
    ELSE IF call.op = "expect_column_existence" THEN HasColumn(df, call.column)
    ELSE IF call.op = "expect_ordered_column_list" THEN ColumnNames(df) = call.column_list
    ELSE IF call.op = "expect_column_value_range" THEN \A x \in CalledInts : InRange(x)
    ELSE IF call.op = "expect_column_min_max_range" THEN MinInRange /\ MaxInRange
    ELSE Cardinality(CalledInts) = Len(CalledColumn)

\* C10: a well-formed check on a dataset that does not meet the expectation
\* returns normally, with a result whose success flag is false.
C10_FailureIsResult ==
    (WellFormed /\ ~Satisfied) =>
        /\ ret.kind = "result"
        /\ \A x \in 1..Len(ret.results) : ~ret.results[x].success

====
